---------------------------- MODULE Spec2Model ----------------------------
(***************************************************************************)
(* Model of the `forces` crate (src/src/lib.rs): Places, Axis, Object and  *)
(* the Object methods new, overtime, overtime_mut, hitzero, addforce and   *)
(* transverseforce, plus Places::into_iter.                                *)
(*                                                                         *)
(* f64 values are modelled in sign-magnitude form, as IEEE 754 stores      *)
(* them: a kind (finite, infinite, NaN), a sign bit and, for finite        *)
(* values, an exact rational magnitude n/d in lowest terms.  Signed zeros, *)
(* infinities and NaN follow the IEEE rules the Rust operators and libm    *)
(* implement.  Finite arithmetic is exact: f64 rounding is not modelled.   *)
(* A result the exact arithmetic cannot hold (an irrational square root or *)
(* trigonometric value, a magnitude beyond Range) is the value Out; a call *)
(* that would produce Out is outside the model and its action is disabled. *)
(***************************************************************************)
EXTENDS Integers, Sequences, FiniteSets, TLC

\* Largest numerator or denominator the model's rationals hold.
Range == 1000000000

\* Largest number of calls made on the Object after Object::new.
MaxCalls == 2

---------------------------------------------------------------------------
(* f64 values *)

Fin(s, n, d) == [k |-> "fin", s |-> s, n |-> n, d |-> d]
NaN  == [k |-> "nan", s |-> 1, n |-> 0, d |-> 1]
PInf == [k |-> "inf", s |-> 1, n |-> 0, d |-> 1]
NInf == [k |-> "inf", s |-> -1, n |-> 0, d |-> 1]
Out  == [k |-> "out", s |-> 1, n |-> 0, d |-> 1]
Inf(s) == IF s = 1 THEN PInf ELSE NInf

Abs(i) == IF i < 0 THEN -i ELSE i
Sgn(i) == IF i < 0 THEN -1 ELSE 1

\* The f64 literal i.0 (or the conversion of the integer i).
I(i) == Fin(Sgn(i), Abs(i), 1)
Zero == I(0)
NegZero == Fin(-1, 0, 1)
One == I(1)
Two == I(2)
Four == I(4)
Half == Fin(1, 1, 2)

RECURSIVE GCD(_, _)
GCD(a, b) == IF b = 0 THEN a ELSE GCD(b, a % b)

\* Whether a * b stays within Range (a, b >= 0).
MulFits(a, b) == a = 0 \/ b <= Range \div a

\* The finite value s * n / d, reduced to lowest terms.
Norm(s, n, d) ==
    LET g == GCD(n, d)
    IN  IF (n \div g) > Range \/ (d \div g) > Range THEN Out
        ELSE Fin(s, n \div g, d \div g)

IsNaN(x) == x.k = "nan"
IsInf(x) == x.k = "inf"
IsOut(x) == x.k = "out"
IsZero(x) == x.k = "fin" /\ x.n = 0

\* f64::is_finite
is_finite(x) == x.k = "fin"

\* f64::is_sign_negative (the sign bit; hitzero only reads it of a non-NaN)
is_sign_negative(x) == x.s = -1

\* unary minus: flips the sign bit
Neg(x) == IF x.k \in {"nan", "out"} THEN x ELSE [x EXCEPT !.s = -x.s]

\* f64 multiplication
Mul(x, y) ==
    IF IsOut(x) \/ IsOut(y) THEN Out
    ELSE IF IsNaN(x) \/ IsNaN(y) THEN NaN
    ELSE IF IsInf(x) \/ IsInf(y)
         THEN IF IsZero(x) \/ IsZero(y) THEN NaN ELSE Inf(x.s * y.s)
    ELSE LET g1 == GCD(x.n, y.d)
             g2 == GCD(y.n, x.d)
             n1 == x.n \div g1
             n2 == y.n \div g2
             d1 == x.d \div g2
             d2 == y.d \div g1
         IN  IF MulFits(n1, n2) /\ MulFits(d1, d2)
             THEN Norm(x.s * y.s, n1 * n2, d1 * d2)
             ELSE Out

\* f64 division
Div(x, y) ==
    IF IsOut(x) \/ IsOut(y) THEN Out
    ELSE IF IsNaN(x) \/ IsNaN(y) THEN NaN
    ELSE IF IsInf(x) THEN (IF IsInf(y) THEN NaN ELSE Inf(x.s * y.s))
    ELSE IF IsInf(y) THEN Fin(x.s * y.s, 0, 1)
    ELSE IF IsZero(y) THEN (IF IsZero(x) THEN NaN ELSE Inf(x.s * y.s))
    ELSE Mul(x, Fin(y.s, y.d, y.n))

\* f64 addition (round to nearest: an exact zero sum is +0 unless both
\* operands are -0)
Add(x, y) ==
    IF IsOut(x) \/ IsOut(y) THEN Out
    ELSE IF IsNaN(x) \/ IsNaN(y) THEN NaN
    ELSE IF IsInf(x) THEN (IF IsInf(y) /\ x.s # y.s THEN NaN ELSE x)
    ELSE IF IsInf(y) THEN y
    ELSE LET g  == GCD(x.d, y.d)
             m1 == y.d \div g
             m2 == x.d \div g
         IN  IF MulFits(x.n, m1) /\ MulFits(y.n, m2) /\ MulFits(x.d, m1)
             THEN LET v == x.s * x.n * m1 + y.s * y.n * m2
                  IN  IF v = 0
                      THEN (IF x.s = -1 /\ y.s = -1 THEN NegZero ELSE Zero)
                      ELSE Norm(Sgn(v), Abs(v), x.d * m1)
             ELSE Out

\* f64 subtraction
Sub(x, y) == Add(x, Neg(y))

\* f64 == (NaN equals nothing, -0 equals +0)
Eq(x, y) ==
    /\ ~IsNaN(x) /\ ~IsNaN(y)
    /\ \/ x = y
       \/ IsZero(x) /\ IsZero(y)

\* floor of the square root of a natural number
RECURSIVE ISqrt(_)
ISqrt(n) ==
    IF n < 2 THEN n
    ELSE LET s == 2 * ISqrt(n \div 4)
         IN  IF (s + 1) * (s + 1) <= n THEN s + 1 ELSE s

IsSquare(n) == ISqrt(n) * ISqrt(n) = n

\* libm::sqrt: NaN for NaN and for negative arguments, the argument itself
\* for +0, -0 and +inf; an exact root when there is one, else Out.
sqrt(x) ==
    IF IsOut(x) THEN Out
    ELSE IF IsNaN(x) THEN NaN
    ELSE IF IsZero(x) THEN x
    ELSE IF x.s = -1 THEN NaN
    ELSE IF IsInf(x) THEN x
    ELSE IF IsSquare(x.n) /\ IsSquare(x.d) THEN Fin(1, ISqrt(x.n), ISqrt(x.d))
    ELSE Out

\* libm::pow(x, 2.0): the square of x (+inf for both infinities, +0 for both
\* zeros, NaN for NaN)
pow2(x) == Mul(x, x)

\* libm::cos: 1 at both zeros, NaN at NaN and the infinities; no other
\* argument of the model's f64 has a rational cosine.
cos(x) ==
    IF IsOut(x) THEN Out
    ELSE IF IsZero(x) THEN One
    ELSE IF IsNaN(x) \/ IsInf(x) THEN NaN
    ELSE Out

\* libm::sin: the argument itself at both zeros, NaN at NaN and the infinities.
sin(x) ==
    IF IsOut(x) THEN Out
    ELSE IF IsZero(x) THEN x
    ELSE IF IsNaN(x) \/ IsInf(x) THEN NaN
    ELSE Out

\* pub const EARTH_GRAVITY: f64 = 9.80665
EARTH_GRAVITY == Fin(1, 196133, 20000)

---------------------------------------------------------------------------
(* Places, Axis, Object *)

\* pub enum Axis { X, Y, Z }
Axis == {"AxisX", "AxisY", "AxisZ"}

\* impl fmt::Display for Axis
fmt(axis) ==
    CASE axis = "AxisX" -> "X"
      [] axis = "AxisY" -> "Y"
      [] axis = "AxisZ" -> "Z"

\* Places::new (the arguments are already converted to f64)
Places_new(x, y, z) == [x |-> x, y |-> y, z |-> z]

\* into_iter with the Y and Z pairs exchanged
into_iter_swapped(self) ==
    << <<"AxisX", self.x>>, <<"AxisZ", self.z>>, <<"AxisY", self.y>> >>

\* impl IntoIterator for Places
into_iter(self) == << <<"AxisX", self.x>>, <<"AxisY", self.y>>, <<"AxisZ", self.z>> >>

\* Object::new keeping every weight it is given
new_keeps_weight(position, speed, acceleration, weight) ==
    [position |-> position, speed |-> speed,
     acceleration |-> acceleration, weight |-> weight]

\* Object::new
new(position, speed, acceleration, weight) ==
    LET w == IF ~is_finite(weight) THEN weight ELSE One
    IN  [position |-> position, speed |-> speed,
         acceleration |-> acceleration, weight |-> w]

\* overtime without the factor 0.5
overtime_no_half(self, time) ==
    Places_new(
        Add(Add(Mul(Mul(self.acceleration.x, time), time),
                Mul(self.speed.x, time)), self.position.x),
        Add(Add(Mul(Mul(self.acceleration.y, time), time),
                Mul(self.speed.y, time)), self.position.y),
        Add(Add(Mul(Mul(self.acceleration.z, time), time),
                Mul(self.speed.z, time)), self.position.z))

\* Object::overtime
overtime(self, time) ==
    LET places == Places_new(Zero, Zero, Zero)
        p1 == [places EXCEPT !.x =
                 Add(Add(Mul(Mul(Mul(self.acceleration.x, time), time), Half),
                         Mul(self.speed.x, time)), self.position.x)]
        p2 == [p1 EXCEPT !.y =
                 Add(Add(Mul(Mul(Mul(self.acceleration.y, time), time), Half),
                         Mul(self.speed.y, time)), self.position.y)]
        p3 == [p2 EXCEPT !.z =
                 Add(Add(Mul(Mul(Mul(self.acceleration.z, time), time), Half),
                         Mul(self.speed.z, time)), self.position.z)]
    IN  p3

\* overtime_mut whose Y assignment reads the X speed
overtime_mut_shared_axis(self, time) ==
    LET s1 == [self EXCEPT !.position.x =
                 Add(Add(Mul(Mul(Mul(self.acceleration.x, time), time), Half),
                         Mul(self.speed.x, time)), self.position.x)]
        s2 == [s1 EXCEPT !.position.y =
                 Add(Add(Mul(Mul(Mul(s1.acceleration.y, time), time), Half),
                         Mul(s1.speed.x, time)), s1.position.y)]
        s3 == [s2 EXCEPT !.position.z =
                 Add(Add(Mul(Mul(Mul(s2.acceleration.z, time), time), Half),
                         Mul(s2.speed.z, time)), s2.position.z)]
    IN  s3

\* overtime_mut that also advances the speed by acceleration * time
overtime_mut_integrating(self, time) ==
    LET adv(p, v, a) == Add(Add(Mul(Mul(Mul(a, time), time), Half),
                                Mul(v, time)), p)
    IN  [self EXCEPT
           !.position = Places_new(
               adv(self.position.x, self.speed.x, self.acceleration.x),
               adv(self.position.y, self.speed.y, self.acceleration.y),
               adv(self.position.z, self.speed.z, self.acceleration.z)),
           !.speed = Places_new(
               Add(self.speed.x, Mul(self.acceleration.x, time)),
               Add(self.speed.y, Mul(self.acceleration.y, time)),
               Add(self.speed.z, Mul(self.acceleration.z, time)))]

\* Object::overtime_mut: the three assignments, in order, each reading self
overtime_mut(self, time) ==
    LET s1 == [self EXCEPT !.position.x =
                 Add(Add(Mul(Mul(Mul(self.acceleration.x, time), time), Half),
                         Mul(self.speed.x, time)), self.position.x)]
        s2 == [s1 EXCEPT !.position.y =
                 Add(Add(Mul(Mul(Mul(s1.acceleration.y, time), time), Half),
                         Mul(s1.speed.y, time)), s1.position.y)]
        s3 == [s2 EXCEPT !.position.z =
                 Add(Add(Mul(Mul(Mul(s2.acceleration.z, time), time), Half),
                         Mul(s2.speed.z, time)), s2.position.z)]
    IN  s3

\* Object::hitzero, the X axis (lines 137-147)
delta_x(self) ==
    LET a == Mul(Half, self.acceleration.x)
        b == self.speed.x
        c == self.position.x
        delta1 == Sub(pow2(b), Mul(Mul(Four, a), c))
    IN  IF Eq(a, Zero) THEN Div(Neg(c), b)
        ELSE IF is_sign_negative(a)
             THEN Sub(Neg(b), Div(sqrt(delta1), Mul(Two, a)))
             ELSE Add(Neg(b), Div(sqrt(delta1), Mul(Two, a)))

\* Object::hitzero, the Y axis (lines 148-158)
delta_y(self) ==
    LET a == Mul(Half, self.acceleration.y)
        b == self.speed.y
        c == self.position.y
        delta1 == Sub(pow2(b), Mul(Mul(Four, a), c))
    IN  IF Eq(a, Zero) THEN Div(Neg(c), b)
        ELSE IF is_sign_negative(a)
             THEN Div(Sub(Neg(b), sqrt(delta1)), Mul(Two, a))
             ELSE Div(Add(Neg(b), sqrt(delta1)), Mul(Two, a))

\* the Z axis with the linear case solved as c / b
delta_z_unsigned(self) ==
    LET a == Mul(Half, self.acceleration.z)
        b == self.speed.z
        c == self.position.z
        delta1 == Sub(pow2(b), Mul(Mul(Four, a), c))
    IN  IF Eq(a, Zero) THEN Div(c, b)
        ELSE IF is_sign_negative(a)
             THEN Div(Sub(Neg(b), sqrt(delta1)), Mul(Two, a))
             ELSE Div(Add(Neg(b), sqrt(delta1)), Mul(Two, a))

\* Object::hitzero, the Z axis (lines 159-169)
delta_z(self) ==
    LET a == Mul(Half, self.acceleration.z)
        b == self.speed.z
        c == self.position.z
        delta1 == Sub(pow2(b), Mul(Mul(Four, a), c))
    IN  IF Eq(a, Zero) THEN Div(Neg(c), b)
        ELSE IF is_sign_negative(a)
             THEN Div(Sub(Neg(b), sqrt(delta1)), Mul(Two, a))
             ELSE Div(Add(Neg(b), sqrt(delta1)), Mul(Two, a))

\* Object::hitzero
hitzero(self) == Places_new(delta_x(self), delta_y(self), delta_z(self))

\* addforce adding force / weight whatever the time
addforce_no_time(self, force, time, axis) ==
    IF ~is_finite(time) THEN self
    ELSE LET inc == Div(force, self.weight)
         IN  IF Eq(time, Zero)
             THEN CASE axis = "AxisX" ->
                         [self EXCEPT !.acceleration.x = Add(@, inc)]
                    [] axis = "AxisY" ->
                         [self EXCEPT !.acceleration.y = Add(@, inc)]
                    [] axis = "AxisZ" ->
                         [self EXCEPT !.acceleration.z = Add(@, inc)]
             ELSE CASE axis = "AxisX" -> [self EXCEPT !.speed.x = Add(@, inc)]
                    [] axis = "AxisY" -> [self EXCEPT !.speed.y = Add(@, inc)]
                    [] axis = "AxisZ" -> [self EXCEPT !.speed.z = Add(@, inc)]

\* addforce without the is_finite guard
addforce_unguarded(self, force, time, axis) ==
    LET inc == Mul(Div(force, self.weight),
                   IF Eq(time, Zero) THEN One ELSE time)
    IN  IF Eq(time, Zero)
        THEN CASE axis = "AxisX" ->
                    [self EXCEPT !.acceleration.x = Add(@, inc)]
               [] axis = "AxisY" ->
                    [self EXCEPT !.acceleration.y = Add(@, inc)]
               [] axis = "AxisZ" ->
                    [self EXCEPT !.acceleration.z = Add(@, inc)]
        ELSE CASE axis = "AxisX" -> [self EXCEPT !.speed.x = Add(@, inc)]
               [] axis = "AxisY" -> [self EXCEPT !.speed.y = Add(@, inc)]
               [] axis = "AxisZ" -> [self EXCEPT !.speed.z = Add(@, inc)]

\* Object::addforce
addforce(self, force, time, axis) ==
    IF ~is_finite(time) THEN self
    ELSE LET inc == Mul(Div(force, self.weight),
                        IF Eq(time, Zero) THEN One ELSE time)
         IN  IF Eq(time, Zero)
             THEN CASE axis = "AxisX" ->
                         [self EXCEPT !.acceleration.x = Add(@, inc)]
                    [] axis = "AxisY" ->
                         [self EXCEPT !.acceleration.y = Add(@, inc)]
                    [] axis = "AxisZ" ->
                         [self EXCEPT !.acceleration.z = Add(@, inc)]
             ELSE CASE axis = "AxisX" -> [self EXCEPT !.speed.x = Add(@, inc)]
                    [] axis = "AxisY" -> [self EXCEPT !.speed.y = Add(@, inc)]
                    [] axis = "AxisZ" -> [self EXCEPT !.speed.z = Add(@, inc)]

\* Object::transverseforce
transverseforce(self, force, degrees) ==
    << Mul(force, cos(Div(degrees, I(360)))),
       Mul(force, sin(Div(degrees, I(360)))) >>

\* The axes the test keeps: hitzero().into_iter().filter_map(|x| if x.1 == 0.0
\* { Some(x.0) } else { None }).collect()
maps(places) ==
    LET kept == SelectSeq(into_iter(places), LAMBDA x : Eq(x[2], Zero))
    IN  [i \in 1..Len(kept) |-> kept[i][1]]

---------------------------------------------------------------------------
(* The calls a host application makes on one Object *)

VARIABLES
    obj,      \* the Object
    args,     \* the arguments Object::new was called with
    prev,     \* the Object before the last call
    call,     \* the last call: its name and arguments
    ret,      \* what the last call returned
    first,    \* when the last two calls were both overtime_mut: a sequence
              \* of one record, the Object before the first of them and the
              \* first one's time; else the empty sequence
    ncalls    \* the number of calls made since Object::new

vars == <<obj, args, prev, call, ret, first, ncalls>>

\* Arguments of Object::new the model starts from.
NewArgs(position, speed, acceleration, weight) ==
    [position |-> position, speed |-> speed, acceleration |-> acceleration,
     weight |-> weight]

\* The unit test's vectors (lines 225-227)
TestPosition == Places_new(I(0), I(0), I(0))
TestSpeed == Places_new(I(10), I(20), I(0))
TestAcceleration == Places_new(Zero, Neg(EARTH_GRAVITY), Zero)

\* The doctests' vectors (lines 77-79)
DocPosition == Places_new(Zero, Zero, Zero)
DocSpeed == Places_new(I(40), I(40), Zero)
DocAcceleration == Places_new(Zero, Neg(EARTH_GRAVITY), Zero)

\* An object accelerating on all three axes, one without acceleration, and
\* vectors of NaN, infinities and negative zeros
QuadPosition == Places_new(I(2), I(2), I(2))
QuadSpeed == Places_new(I(-3), I(-3), I(1))
QuadAcceleration == Places_new(I(2), I(2), I(-2))
NoAcceleration == Places_new(Zero, Zero, Zero)
OddPosition == Places_new(NegZero, NaN, PInf)
OddSpeed == Places_new(NInf, NegZero, NaN)
OddAcceleration == Places_new(NaN, PInf, NegZero)

Objects ==
    { NewArgs(TestPosition, TestSpeed, TestAcceleration, I(5)),
      NewArgs(DocPosition, DocSpeed, DocAcceleration, I(30)),
      NewArgs(TestPosition, TestSpeed, NoAcceleration, I(5)),
      NewArgs(QuadPosition, QuadSpeed, QuadAcceleration, I(30)),
      NewArgs(QuadPosition, TestSpeed, QuadAcceleration, PInf),
      NewArgs(QuadPosition, QuadSpeed, NoAcceleration, NaN),
      NewArgs(TestPosition, DocSpeed, TestAcceleration, NInf),
      NewArgs(OddPosition, OddSpeed, OddAcceleration, I(0)),
      NewArgs(OddPosition, QuadSpeed, QuadAcceleration, NaN),
      NewArgs(QuadPosition, OddSpeed, OddAcceleration, I(-1)) }

\* Arguments of the calls.
OvertimeTimes == { Zero, I(2), I(-1), PInf, NaN }
Forces == { I(10), I(40) }
ForceTimes == { Zero, I(5), NaN, PInf, NInf }
Degrees == { Zero, PInf }

None == "none"

Call(op, time, force, axis, degrees, places) ==
    [op |-> op, time |-> time, force |-> force, axis |-> axis,
     degrees |-> degrees, places |-> places]

NoPlaces == Places_new(Zero, Zero, Zero)

\* Whether a result lies outside the model's arithmetic.
OutPlaces(p) == IsOut(p.x) \/ IsOut(p.y) \/ IsOut(p.z)
OutObject(o) ==
    OutPlaces(o.position) \/ OutPlaces(o.speed) \/ OutPlaces(o.acceleration)

Init ==
    /\ args \in Objects
    /\ obj = new(args.position, args.speed, args.acceleration, args.weight)
    /\ prev = obj
    /\ call = Call("new", Zero, Zero, "AxisX", Zero, NoPlaces)
    /\ ret = None
    /\ first = <<>>
    /\ ncalls = 0

Overtime ==
    \E time \in OvertimeTimes :
        LET r == overtime(obj, time)
        IN  /\ ncalls < MaxCalls
            /\ ~OutPlaces(r)
            /\ ret' = r
            /\ call' = Call("overtime", time, Zero, "AxisX", Zero, NoPlaces)
            /\ prev' = obj
            /\ first' = <<>>
            /\ ncalls' = ncalls + 1
            /\ UNCHANGED <<obj, args>>

OvertimeMut ==
    \E time \in OvertimeTimes :
        LET o == overtime_mut(obj, time)
        IN  /\ ncalls < MaxCalls
            /\ ~OutObject(o)
            /\ obj' = o
            /\ ret' = None
            /\ call' = Call("overtime_mut", time, Zero, "AxisX", Zero, NoPlaces)
            /\ prev' = obj
            /\ first' = IF call.op = "overtime_mut"
                        THEN <<[start |-> prev, time |-> call.time]>>
                        ELSE <<>>
            /\ ncalls' = ncalls + 1
            /\ UNCHANGED args

Hitzero ==
    LET r == hitzero(obj)
    IN  /\ ncalls < MaxCalls
        /\ ~OutPlaces(r)
        /\ ret' = r
        /\ call' = Call("hitzero", Zero, Zero, "AxisX", Zero, NoPlaces)
        /\ prev' = obj
        /\ first' = <<>>
        /\ ncalls' = ncalls + 1
        /\ UNCHANGED <<obj, args>>

Addforce ==
    \E force \in Forces, time \in ForceTimes, axis \in Axis :
        LET o == addforce(obj, force, time, axis)
        IN  /\ ncalls < MaxCalls
            /\ ~OutObject(o)
            /\ obj' = o
            /\ ret' = None
            /\ call' = Call("addforce", time, force, axis, Zero, NoPlaces)
            /\ prev' = obj
            /\ first' = <<>>
            /\ ncalls' = ncalls + 1
            /\ UNCHANGED args

Transverseforce ==
    \E force \in Forces, degrees \in Degrees :
        LET r == transverseforce(obj, force, degrees)
        IN  /\ ncalls < MaxCalls
            /\ ~IsOut(r[1]) /\ ~IsOut(r[2])
            /\ ret' = r
            /\ call' = Call("transverseforce", Zero, force, "AxisX", degrees,
                            NoPlaces)
            /\ prev' = obj
            /\ first' = <<>>
            /\ ncalls' = ncalls + 1
            /\ UNCHANGED <<obj, args>>

\* into_iter on one of the Object's vectors, or on what hitzero returns (as
\* the unit test does, lines 240-244)
IntoIter ==
    \E places \in {obj.position, obj.speed, obj.acceleration, hitzero(obj)} :
        /\ ncalls < MaxCalls
        /\ ~OutPlaces(places)
        /\ ret' = into_iter(places)
        /\ call' = Call("into_iter", Zero, Zero, "AxisX", Zero, places)
        /\ prev' = obj
        /\ first' = <<>>
        /\ ncalls' = ncalls + 1
        /\ UNCHANGED <<obj, args>>

Next ==
    \/ Overtime
    \/ OvertimeMut
    \/ Hitzero
    \/ Addforce
    \/ Transverseforce
    \/ IntoIter

Spec == Init /\ [][Next]_vars

---------------------------------------------------------------------------
(* Properties *)

Get(p, axis) ==
    CASE axis = "AxisX" -> p.x
      [] axis = "AxisY" -> p.y
      [] axis = "AxisZ" -> p.z

Set(p, axis, v) ==
    CASE axis = "AxisX" -> [p EXCEPT !.x = v]
      [] axis = "AxisY" -> [p EXCEPT !.y = v]
      [] axis = "AxisZ" -> [p EXCEPT !.z = v]

TestArgs == NewArgs(TestPosition, TestSpeed, TestAcceleration, I(5))
DocArgs == NewArgs(DocPosition, DocSpeed, DocAcceleration, I(30))

\* C1: for an object built by Object::new with a finite positive mass m,
\* addforce(force, 0.0, axis) adds force / m to the acceleration component of
\* axis and changes nothing else (mass 5.0, zero acceleration,
\* addforce(10.0, 0.0, Y) gives acceleration.y = 2.0).
C1_AddforceDividesBySuppliedMass ==
    (/\ call.op = "addforce"
     /\ Eq(call.time, Zero)
     /\ is_finite(args.weight) /\ args.weight.s = 1 /\ args.weight.n > 0)
    => obj = [prev EXCEPT !.acceleration =
                Set(prev.acceleration, call.axis,
                    Add(Get(prev.acceleration, call.axis),
                        Div(call.force, args.weight)))]

\* C2: after overtime_mut(t) the position is what overtime(t) returns on the
\* object as it was before the call, and speed, acceleration and weight are
\* as before.
C2_OvertimeMutAgreesWithOvertime ==
    call.op = "overtime_mut" =>
        /\ obj.position = overtime(prev, call.time)
        /\ obj.speed = prev.speed
        /\ obj.acceleration = prev.acceleration
        /\ obj.weight = prev.weight

C2_Witness ==
    /\ call.op = "overtime_mut"
    /\ obj.position.x # prev.position.x
    /\ obj.position.y # prev.position.y
    /\ obj.position.z # prev.position.z
    /\ is_finite(obj.position.x) /\ is_finite(obj.position.y)
    /\ is_finite(obj.position.z)

\* C3: addforce(force, t, axis) with a finite nonzero t adds
\* force / weight * t to the speed component of axis, weight being the
\* object's weight field, and changes nothing else; the unit test's
\* acceleration.y is still -EARTH_GRAVITY after addforce(10.0, 5.0, Y), and
\* the doctest's speed.y is 240.0 after addforce(40.0, 5.0, Y).
C3_AddforceOverTime ==
    (call.op = "addforce" /\ is_finite(call.time) /\ ~Eq(call.time, Zero)) =>
        /\ obj = [prev EXCEPT !.speed =
                    Set(prev.speed, call.axis,
                        Add(Get(prev.speed, call.axis),
                            Mul(Div(call.force, prev.weight), call.time)))]
        /\ \A other \in Axis \ {call.axis} :
              Get(obj.speed, other) = Get(prev.speed, other)
        /\ obj.position = prev.position
        /\ obj.acceleration = prev.acceleration
        /\ obj.weight = prev.weight
        /\ (/\ args = TestArgs /\ ncalls = 1 /\ call.force = I(10)
            /\ call.time = I(5) /\ call.axis = "AxisY")
           => obj.acceleration.y = Neg(EARTH_GRAVITY)
        /\ (/\ args = DocArgs /\ ncalls = 1 /\ call.force = I(40)
            /\ call.time = I(5) /\ call.axis = "AxisY")
           => obj.speed.y = I(240)

C3_Witness ==
    /\ call.op = "addforce"
    /\ args = DocArgs /\ ncalls = 1
    /\ call.force = I(40) /\ call.time = I(5) /\ call.axis = "AxisY"
    /\ prev.speed.y = I(40)
    /\ obj.speed.y = I(240)

\* C4: addforce with a time that is NaN, +infinity or -infinity changes no
\* field of the object and reports nothing.
C4_AddforceNonFiniteTime ==
    (call.op = "addforce" /\ ~is_finite(call.time)) =>
        /\ obj = prev
        /\ ret = None

C4_Witness ==
    /\ call.op = "addforce"
    /\ call.time = NInf
    /\ call.axis = "AxisZ"
    /\ is_finite(obj.speed.z) /\ is_finite(obj.acceleration.z)
    /\ is_finite(obj.weight)

\* The root the quadratic rule selects for one axis.
Root(a, b, c) ==
    LET delta1 == Sub(pow2(b), Mul(Mul(Four, a), c))
    IN  IF is_sign_negative(a)
        THEN Div(Sub(Neg(b), sqrt(delta1)), Mul(Two, a))
        ELSE Div(Add(Neg(b), sqrt(delta1)), Mul(Two, a))

\* C5: on each of the three axes, with a = 0.5 * acceleration, b = speed,
\* c = position and a # 0, hitzero returns (-b - sqrt(b^2 - 4ac)) / (2a) when
\* a is negative and (-b + sqrt(b^2 - 4ac)) / (2a) otherwise.
C5_HitzeroSameRuleOnEveryAxis ==
    call.op = "hitzero" =>
        \A axis \in Axis :
            LET a == Mul(Half, Get(obj.acceleration, axis))
                b == Get(obj.speed, axis)
                c == Get(obj.position, axis)
            IN  ~Eq(a, Zero) => Get(ret, axis) = Root(a, b, c)

\* C6: on an axis whose acceleration is zero and whose speed is not, hitzero
\* returns -position / speed whatever the other axes hold, which equals 0 when
\* the position is 0; in the unit test, after addforce(10.0, 5.0, Y), the
\* first axis whose hitzero component equals 0.0 is X.
C6_HitzeroLinearCase ==
    call.op = "hitzero" =>
        /\ \A axis \in Axis :
              LET acc == Get(obj.acceleration, axis)
                  b == Get(obj.speed, axis)
                  c == Get(obj.position, axis)
              IN  (IsZero(acc) /\ ~Eq(b, Zero)) =>
                      /\ Get(ret, axis) = Div(Neg(c), b)
                      /\ (IsZero(c) /\ ~IsNaN(b)) => Eq(Get(ret, axis), Zero)
        /\ (/\ args = TestArgs
            /\ obj.position = TestPosition
            /\ obj.speed = Places_new(I(10), I(70), I(0))
            /\ obj.acceleration = TestAcceleration)
           => /\ Len(maps(ret)) > 0
              /\ fmt(maps(ret)[1]) = "X"

C6_Witness ==
    /\ call.op = "hitzero"
    /\ args = TestArgs
    /\ obj.speed.y = I(70)
    /\ IsZero(ret.x)
    /\ IsNaN(ret.z)
    /\ is_finite(ret.y) /\ ~IsZero(ret.y)

\* C7: Object::new stores the three vectors as given, keeps a weight that is
\* not finite and replaces a finite one by 1.0; whatever calls follow, the
\* weight is 1.0 or not finite and is the value Object::new stored.
C7_WeightIsOneOrNotFinite ==
    /\ obj.weight = (IF is_finite(args.weight) THEN One ELSE args.weight)
    /\ (obj.weight = One \/ ~is_finite(obj.weight))
    /\ ncalls = 0 =>
          /\ obj.position = args.position
          /\ obj.speed = args.speed
          /\ obj.acceleration = args.acceleration

C7_Witness ==
    /\ ncalls = MaxCalls
    /\ call.op = "addforce"
    /\ obj # prev
    /\ args.weight = I(30)
    /\ obj.weight = One

\* C8: overtime(time) leaves the object as it is and returns, on each axis,
\* 0.5 * acceleration * time^2 + speed * time + position of that axis, for
\* negative, zero and positive times; overtime(0.0) returns the position when
\* position, speed and acceleration are finite.
C8_OvertimeFormula ==
    call.op = "overtime" =>
        /\ obj = prev
        /\ \A axis \in Axis :
              LET a == Get(obj.acceleration, axis)
                  v == Get(obj.speed, axis)
                  p == Get(obj.position, axis)
                  t == call.time
              IN  /\ Get(ret, axis) =
                        Add(Add(Mul(Mul(Half, a), Mul(t, t)), Mul(v, t)), p)
                  /\ (/\ Eq(t, Zero)
                      /\ is_finite(a) /\ is_finite(v) /\ is_finite(p))
                     => Eq(Get(ret, axis), p)

\* The unit test's object projected to time 2 (lines 229-232).
C8_Witness ==
    /\ call.op = "overtime"
    /\ args = TestArgs /\ ncalls = 1
    /\ call.time = I(2)
    /\ ret = Places_new(I(20), Fin(1, 203867, 10000), Zero)

\* C9: into_iter yields exactly three pairs, (X, x), (Y, y), (Z, z) in this
\* order, each scalar being the field as it is, whatever the fields hold.
C9_IntoIterOrder ==
    call.op = "into_iter" =>
        /\ Len(ret) = 3
        /\ ret[1][1] = "AxisX" /\ ret[1][2] = call.places.x
        /\ ret[2][1] = "AxisY" /\ ret[2][2] = call.places.y
        /\ ret[3][1] = "AxisZ" /\ ret[3][2] = call.places.z
        /\ fmt(ret[1][1]) = "X" /\ fmt(ret[2][1]) = "Y" /\ fmt(ret[3][1]) = "Z"

C9_Witness ==
    /\ call.op = "into_iter"
    /\ IsNaN(call.places.y)
    /\ call.places.z = PInf
    /\ ret[2][2] # ret[3][2]

\* Whether the last two calls were overtime_mut(t1), overtime_mut(t2) on an
\* axis where position, speed, acceleration and both times are finite.
TwoSteps(axis) ==
    /\ Len(first) = 1
    /\ is_finite(first[1].time) /\ is_finite(call.time)
    /\ is_finite(Get(first[1].start.position, axis))
    /\ is_finite(Get(first[1].start.speed, axis))
    /\ is_finite(Get(first[1].start.acceleration, axis))

\* C10: after overtime_mut(t1) and overtime_mut(t2), on each axis with finite
\* position p, speed v, acceleration a and finite times, the position is
\* p + v*(t1+t2) + 0.5*a*(t1^2+t2^2), and it is the position a single
\* overtime_mut(t1+t2) gives exactly when a*t1*t2 = 0.
C10_TwoStepsNotAdditive ==
    \A axis \in Axis :
        TwoSteps(axis) =>
            LET p == Get(first[1].start.position, axis)
                v == Get(first[1].start.speed, axis)
                a == Get(first[1].start.acceleration, axis)
                t1 == first[1].time
                t2 == call.time
                single == overtime_mut(first[1].start, Add(t1, t2))
            IN  /\ Eq(Get(obj.position, axis),
                      Add(Add(p, Mul(v, Add(t1, t2))),
                          Mul(Mul(Half, a), Add(Mul(t1, t1), Mul(t2, t2)))))
                /\ Eq(Get(obj.position, axis), Get(single.position, axis))
                   <=> Eq(Mul(Mul(a, t1), t2), Zero)

C10_Witness ==
    /\ TwoSteps("AxisY")
    /\ first[1].time = I(2) /\ call.time = I(-1)
    /\ first[1].start.acceleration.y = Neg(EARTH_GRAVITY)
    /\ ~Eq(obj.position.y,
           overtime_mut(first[1].start, Add(first[1].time, call.time)).position.y)

=============================================================================
